---- MODULE Spec2Model ----
(***************************************************************************)
(* OptimizedHttpClient (src/src/httpClient.ts): request deduplication by   *)
(* URL and a per-host limit on concurrent transport calls, with a wait     *)
(* buffer per host.                                                        *)
(*                                                                         *)
(* JavaScript runs one synchronous block at a time, so every action below  *)
(* is one such block: a call of fetchWithOptimization up to its first      *)
(* await, and the continuation of executeRequest after `await              *)
(* requestPromise` (resolve / reject, the finally block, and the nested    *)
(* fetchWithOptimization call made for the dequeued request, which itself  *)
(* runs synchronously up to its first await).  Between the transport's     *)
(* answer and that continuation the dispatcher's maps do not change, so    *)
(* the answer is drawn when the continuation runs.                         *)
(***************************************************************************)
EXTENDS Integers, Sequences, FiniteSets, TLC

VARIABLES inFlightRequests, hostQueue, hostCounters, calls, fetches

vars == <<inFlightRequests, hostQueue, hostCounters, calls, fetches>>

----------------------------------------------------------------------------
(* Bounds of the model.                                                    *)

\* number of fetchWithOptimization calls made by application code
MaxCalls == 5
\* number of distinct paths requested on the busy host
NumPaths == 5

\* number of fetchWithOptimization calls in a burst of requests to one host
MaxBurst == 7
\* number of fetchWithOptimization calls made with differing options
MaxHeaderCalls == 5
\* number of fetchWithOptimization calls made to differing schemes and ports
MaxKeyCalls == 5

(* Program constant.                                                       *)
MAX_CONCURRENT_REQUESTS == 3

----------------------------------------------------------------------------
(* URLs.  A URL string is modelled by the components the WHATWG parser     *)
(* splits it into; a string without a scheme does not parse.               *)

Url(scheme, hostname, port, path) ==
    [scheme |-> scheme, hostname |-> hostname, port |-> port, path |-> path]

BusyUrls == { Url("https", "a.test", "", p) : p \in 1..NumPaths }
OtherUrl == Url("https", "b.test", "", 1)
BadUrl   == Url("", "", "", 0)
Urls     == BusyUrls \cup {OtherUrl, BadUrl}

\* new URL(urlString) throws a TypeError unless the string is absolute
URLParses(u) == u.scheme \in {"http", "https"}

DefaultPort(scheme) == IF scheme = "http" THEN "80" ELSE "443"

\* URL.host: hostname, followed by the port unless it is the scheme's default
URLHost(u) ==
    [hostname |-> u.hostname,
     port     |-> IF u.port = DefaultPort(u.scheme) THEN "" ELSE u.port]

\* getHostKey reading URL.hostname, which leaves the port out
getHostKey_hostnameOnly(u) == [hostname |-> u.hostname, port |-> ""]

\* getHostKey: the host of the URL; only meaningful when URLParses(u)
getHostKey(u) == URLHost(u)

\* URLs of one hostname that differ in scheme and in port, written out or
\* left to the scheme's default
KeyUrls ==
    { Url(scheme, "a.test", port, 1) :
        scheme \in {"http", "https"}, port \in {"", "80", "443"} }

Hosts == { getHostKey(u) : u \in { v \in Urls : URLParses(v) } }

----------------------------------------------------------------------------
(* Request options: the headers the caller supplied, each a pair of a name  *)
(* and a value.  A call made without options passes the default, {}.       *)

Header(name, value) == <<name, value>>

Options == { {Header("X-Custom-Header", "CustomValue")} }

\* the options of callers that disagree: none, a header, the same header
\* with another value
HeaderOptions ==
    { {},
      {Header("X-Custom-Header", "CustomValue")},
      {Header("X-Custom-Header", "OtherValue")} }

----------------------------------------------------------------------------
(* What the transport (fetch) can answer, and what a promise can hold.     *)

NetworkFailure == [neterr |-> TRUE,  status |-> 0,   json |-> FALSE]
NoAnswer       == [neterr |-> FALSE, status |-> 0,   json |-> FALSE]
Response(status, json) == [neterr |-> FALSE, status |-> status, json |-> json]

TransportAnswers ==
    { NetworkFailure, Response(200, TRUE), Response(200, FALSE), Response(500, TRUE) }

\* response.ok
ResponseOk(r) == r.status >= 200 /\ r.status <= 299

NoError == [msg |-> "", status |-> 0]
Pending == [kind |-> "pending", response |-> NetworkFailure, error |-> NoError]
Resolved(r) == [kind |-> "resolved", response |-> r, error |-> NoError]
Rejected(e) == [kind |-> "rejected", response |-> NetworkFailure, error |-> e]

HttpError(status) == [msg |-> "HTTP Error", status |-> status]
NetworkError      == [msg |-> "Network Error", status |-> 0]
InvalidUrlError   == [msg |-> "Invalid URL", status |-> 0]

----------------------------------------------------------------------------
(* JavaScript Map.                                                         *)

MapHas(m, k)    == k \in DOMAIN m
MapSet(m, k, v) == [x \in (DOMAIN m) \cup {k} |-> IF x = k THEN v ELSE m[x]]
MapDelete(m, k) == [x \in (DOMAIN m) \ {k} |-> m[x]]
EmptyMap        == [x \in {} |-> 0]

----------------------------------------------------------------------------
(* The dispatcher state as one value, so that a handler that calls another *)
(* handler is the composition of two state transformers.                   *)

St == [inFlight |-> inFlightRequests, queue |-> hostQueue,
       counters |-> hostCounters, calls |-> calls, fetches |-> fetches]

\* a caller of fetchWithOptimization and the promise it was handed.  Two
\* fields record history for the properties: peers, the earlier calls for the
\* same URL that were unsettled when this call was made, and buffered,
\* whether the call was ever placed in a wait buffer.  outcomes counts the
\* outcomes delivered to the caller's promise: invocations of its resolve or
\* reject handle, the settlement of a stored promise it was handed, or the
\* exception thrown out of fetchWithOptimization.  source is the transport
\* call whose outcome the caller's promise holds.
NewCall(u, o) ==
    [url |-> u, options |-> o, state |-> "new", fetch |-> 0,
     role |-> "none", result |-> Pending, buffered |-> FALSE, outcomes |-> 0,
     source |-> 0,
     peers |-> { c \in DOMAIN calls :
                   calls[c].url = u /\ calls[c].state # "settled" }]

\* executeRequest counting the active requests of all hosts together
executeRequest_globalLimit(S, c, u, o, hostKey) ==
    LET Sum[D \in SUBSET DOMAIN S.counters] ==
            IF D = {} THEN 0
            ELSE LET h == CHOOSE x \in D : TRUE IN S.counters[h] + Sum[D \ {h}]
        own == IF MapHas(S.counters, hostKey) THEN S.counters[hostKey] ELSE 0
        activeRequests == Sum[DOMAIN S.counters]
        queue == IF MapHas(S.queue, hostKey) THEN S.queue[hostKey] ELSE <<>>
        f == Len(S.fetches) + 1
    IN  IF activeRequests >= MAX_CONCURRENT_REQUESTS
        THEN [S EXCEPT
                !.queue = MapSet(@, hostKey,
                                 Append(queue, [call |-> c, url |-> u, options |-> o])),
                !.calls[c].state = "queued",
                !.calls[c].buffered = TRUE]
        ELSE [S EXCEPT
                !.counters = MapSet(@, hostKey, own + 1),
                !.fetches  = Append(@, [url |-> u, options |-> o, host |-> hostKey,
                                        owner |-> c, state |-> "inflight",
                                        answer |-> NoAnswer,
                                        promise |-> Pending]),
                !.inFlight = MapSet(@, u, f),
                !.calls[c].state = "waiting",
                !.calls[c].fetch = f,
                !.calls[c].role  = "owner"]

\* executeRequest with the limit test off by one (`>` for `>=`)
executeRequest_offByOne(S, c, u, o, hostKey) ==
    LET activeRequests ==
            IF MapHas(S.counters, hostKey) THEN S.counters[hostKey] ELSE 0
        queue == IF MapHas(S.queue, hostKey) THEN S.queue[hostKey] ELSE <<>>
        f == Len(S.fetches) + 1
    IN  IF activeRequests > MAX_CONCURRENT_REQUESTS
        THEN [S EXCEPT
                !.queue = MapSet(@, hostKey,
                                 Append(queue, [call |-> c, url |-> u, options |-> o])),
                !.calls[c].state = "queued",
                !.calls[c].buffered = TRUE]
        ELSE [S EXCEPT
                !.counters = MapSet(@, hostKey, activeRequests + 1),
                !.fetches  = Append(@, [url |-> u, options |-> o, host |-> hostKey,
                                        owner |-> c, state |-> "inflight",
                                        answer |-> NoAnswer,
                                        promise |-> Pending]),
                !.inFlight = MapSet(@, u, f),
                !.calls[c].state = "waiting",
                !.calls[c].fetch = f,
                !.calls[c].role  = "owner"]

\* executeRequest taking the host's slot before the limit test, so that a
\* buffered request is counted as active
executeRequest_countBuffered(S, c, u, o, hostKey) ==
    LET activeRequests ==
            IF MapHas(S.counters, hostKey) THEN S.counters[hostKey] ELSE 0
        queue == IF MapHas(S.queue, hostKey) THEN S.queue[hostKey] ELSE <<>>
        f == Len(S.fetches) + 1
    IN  IF activeRequests >= MAX_CONCURRENT_REQUESTS
        THEN [S EXCEPT
                !.counters = MapSet(@, hostKey, activeRequests + 1),
                !.queue = MapSet(@, hostKey,
                                 Append(queue, [call |-> c, url |-> u, options |-> o])),
                !.calls[c].state = "queued",
                !.calls[c].buffered = TRUE]
        ELSE [S EXCEPT
                !.counters = MapSet(@, hostKey, activeRequests + 1),
                !.fetches  = Append(@, [url |-> u, options |-> o, host |-> hostKey,
                                        owner |-> c, state |-> "inflight",
                                        answer |-> NoAnswer,
                                        promise |-> Pending]),
                !.inFlight = MapSet(@, u, f),
                !.calls[c].state = "waiting",
                !.calls[c].fetch = f,
                !.calls[c].role  = "owner"]

\* executeRequest putting a waiting request at the head of the buffer
\* (unshift for push)
executeRequest_unshift(S, c, u, o, hostKey) ==
    LET activeRequests ==
            IF MapHas(S.counters, hostKey) THEN S.counters[hostKey] ELSE 0
        queue == IF MapHas(S.queue, hostKey) THEN S.queue[hostKey] ELSE <<>>
        f == Len(S.fetches) + 1
    IN  IF activeRequests >= MAX_CONCURRENT_REQUESTS
        THEN [S EXCEPT
                !.queue = MapSet(@, hostKey,
                                 <<[call |-> c, url |-> u, options |-> o]>> \o queue),
                !.calls[c].state = "queued",
                !.calls[c].buffered = TRUE]
        ELSE [S EXCEPT
                !.counters = MapSet(@, hostKey, activeRequests + 1),
                !.fetches  = Append(@, [url |-> u, options |-> o, host |-> hostKey,
                                        owner |-> c, state |-> "inflight",
                                        answer |-> NoAnswer,
                                        promise |-> Pending]),
                !.inFlight = MapSet(@, u, f),
                !.calls[c].state = "waiting",
                !.calls[c].fetch = f,
                !.calls[c].role  = "owner"]

\* executeRequest without the `return` of line 39: a request that is pushed
\* onto the wait buffer goes on to start its transport call as well
executeRequest_noReturn(S, c, u, o, hostKey) ==
    LET activeRequests ==
            IF MapHas(S.counters, hostKey) THEN S.counters[hostKey] ELSE 0
        queue == IF MapHas(S.queue, hostKey) THEN S.queue[hostKey] ELSE <<>>
        f == Len(S.fetches) + 1
        S1 == IF activeRequests >= MAX_CONCURRENT_REQUESTS
              THEN [S EXCEPT
                      !.queue = MapSet(@, hostKey,
                                       Append(queue, [call |-> c, url |-> u,
                                                      options |-> o])),
                      !.calls[c].buffered = TRUE]
              ELSE S
    IN  [S1 EXCEPT
           !.counters = MapSet(@, hostKey, activeRequests + 1),
           !.fetches  = Append(@, [url |-> u, options |-> o, host |-> hostKey,
                                   owner |-> c, state |-> "inflight",
                                   answer |-> NoAnswer,
                                   promise |-> Pending]),
           !.inFlight = MapSet(@, u, f),
           !.calls[c].state = "waiting",
           !.calls[c].fetch = f,
           !.calls[c].role  = "owner"]

\* executeRequest up to `await requestPromise` (or up to `return` when the
\* host is at its limit); c is the call whose resolve/reject it closes over
executeRequest(S, c, u, o, hostKey) ==
    LET activeRequests ==
            IF MapHas(S.counters, hostKey) THEN S.counters[hostKey] ELSE 0
        queue == IF MapHas(S.queue, hostKey) THEN S.queue[hostKey] ELSE <<>>
        f == Len(S.fetches) + 1
    IN  IF activeRequests >= MAX_CONCURRENT_REQUESTS
        THEN [S EXCEPT
                !.queue = MapSet(@, hostKey,
                                 Append(queue, [call |-> c, url |-> u, options |-> o])),
                !.calls[c].state = "queued",
                !.calls[c].buffered = TRUE]
        ELSE [S EXCEPT
                !.counters = MapSet(@, hostKey, activeRequests + 1),
                !.fetches  = Append(@, [url |-> u, options |-> o, host |-> hostKey,
                                        owner |-> c, state |-> "inflight",
                                        answer |-> NoAnswer,
                                        promise |-> Pending]),
                !.inFlight = MapSet(@, u, f),
                !.calls[c].state = "waiting",
                !.calls[c].fetch = f,
                !.calls[c].role  = "owner"]

\* fetchWithOptimization taking a slot of the host before it looks for the
\* URL in the dedup map
fetchWithOptimization_countJoined(S, c, u, o) ==
    IF MapHas(S.inFlight, u)
    THEN LET hostKey == getHostKey(u)
             n == IF MapHas(S.counters, hostKey) THEN S.counters[hostKey] ELSE 0
         IN  [S EXCEPT !.counters = MapSet(@, hostKey, n + 1),
                       !.calls[c].state = "waiting",
                       !.calls[c].fetch = S.inFlight[u],
                       !.calls[c].role  = "joined"]
    ELSE IF ~URLParses(u)
    THEN [S EXCEPT !.calls[c].state  = "settled",
                   !.calls[c].result = Rejected(InvalidUrlError),
                   !.calls[c].outcomes = @ + 1]
    ELSE executeRequest(S, c, u, o, getHostKey(u))

\* fetchWithOptimization creating the host's buffer before it derives the key
fetchWithOptimization_queueFirst(S, c, u, o) ==
    IF MapHas(S.inFlight, u)
    THEN [S EXCEPT !.calls[c].state = "waiting",
                   !.calls[c].fetch = S.inFlight[u],
                   !.calls[c].role  = "joined"]
    ELSE IF ~URLParses(u)
    THEN [S EXCEPT !.calls[c].state  = "settled",
                   !.calls[c].result = Rejected(InvalidUrlError),
                   !.calls[c].outcomes = @ + 1,
                   !.queue = MapSet(@, URLHost(u), <<>>)]
    ELSE executeRequest(S, c, u, o, getHostKey(u))

\* fetchWithOptimization(u, o) on behalf of call c, up to its first await
fetchWithOptimization(S, c, u, o) ==
    IF MapHas(S.inFlight, u)
    THEN [S EXCEPT !.calls[c].state = "waiting",
                   !.calls[c].fetch = S.inFlight[u],
                   !.calls[c].role  = "joined"]
    ELSE IF ~URLParses(u)
    THEN [S EXCEPT !.calls[c].state  = "settled",
                   !.calls[c].result = Rejected(InvalidUrlError),
                   !.calls[c].outcomes = @ + 1]
    ELSE executeRequest(S, c, u, o, getHostKey(u))

\* requestPromise without the response.ok test of line 46
requestPromise_ignoreStatus(answer) ==
    IF answer.neterr THEN Rejected(NetworkError) ELSE Resolved(answer)

\* the promise fetch(url, options).then(...) of line 45, once fetch answers
requestPromise(answer) ==
    IF answer.neterr THEN Rejected(NetworkError)
    ELSE IF ~ResponseOk(answer) THEN Rejected(HttpError(answer.status))
    ELSE Resolved(answer)

\* a catch block that resolves instead of rejecting
settleOwner_swallow(promise) ==
    IF promise.kind = "rejected" THEN Resolved(NoAnswer) ELSE promise

\* resolve(response) / reject(error) of the call that owns the fetch
settleOwner(promise) == promise

\* what a caller that was handed the stored promise (line 22) receives
settleJoined(promise) == promise

\* the try/catch after the await: every waiter of fetch f learns the
\* outcome.  resolve / reject are those of the call whose executeRequest
\* started f; the stored promise settles for every call that was handed it.
\* A promise keeps the first outcome it is given.
settle(S, f, answer) ==
    LET promise == requestPromise(answer)
        owns(c) == S.fetches[f].owner = c
        joins(c) == S.calls[c].role = "joined" /\ S.calls[c].fetch = f
        delivered(c) == (IF owns(c) THEN 1 ELSE 0) + (IF joins(c) THEN 1 ELSE 0)
    IN  [S EXCEPT
           !.fetches[f].state = "done",
           !.fetches[f].answer = answer,
           !.fetches[f].promise = promise,
           !.calls = [c \in DOMAIN S.calls |->
                        IF delivered(c) > 0
                        THEN [S.calls[c] EXCEPT
                                !.state  = "settled",
                                !.result = IF @ # Pending THEN @
                                           ELSE IF owns(c)
                                           THEN settleOwner(promise)
                                           ELSE settleJoined(promise),
                                !.source = IF @ # 0 THEN @ ELSE f,
                                !.outcomes = @ + delivered(c)]
                        ELSE S.calls[c]]]

\* the cleanup done in the try block, so that it is skipped after an error
release_onSuccessOnly(S, f) ==
    LET u == S.fetches[f].url
        hostKey == S.fetches[f].host
        n == IF MapHas(S.counters, hostKey) /\ S.counters[hostKey] # 0
             THEN S.counters[hostKey] ELSE 1
    IN  IF S.fetches[f].promise.kind = "rejected"
        THEN [S EXCEPT !.counters = MapSet(@, hostKey, n - 1)]
        ELSE [S EXCEPT !.inFlight = MapDelete(@, u),
                       !.counters = MapSet(@, hostKey, n - 1)]

\* the cleanup giving the slot back in the try block, so that it is kept
\* after an error
release_leakOnError(S, f) ==
    LET u == S.fetches[f].url
        hostKey == S.fetches[f].host
        n == IF MapHas(S.counters, hostKey) /\ S.counters[hostKey] # 0
             THEN S.counters[hostKey] ELSE 1
    IN  IF S.fetches[f].promise.kind = "rejected"
        THEN [S EXCEPT !.inFlight = MapDelete(@, u)]
        ELSE [S EXCEPT !.inFlight = MapDelete(@, u),
                       !.counters = MapSet(@, hostKey, n - 1)]

\* the cleanup emptying the dedup map (clear() for delete(urlString))
release_clearAll(S, f) ==
    LET hostKey == S.fetches[f].host
        n == IF MapHas(S.counters, hostKey) /\ S.counters[hostKey] # 0
             THEN S.counters[hostKey] ELSE 1
    IN  [S EXCEPT !.inFlight = EmptyMap,
                  !.counters = MapSet(@, hostKey, n - 1)]

\* the cleanup forgetting to give the host's slot back
release_keepSlot(S, f) ==
    [S EXCEPT !.inFlight = MapDelete(@, S.fetches[f].url)]

\* the cleanup deleting the dedup entry under the host key instead of the URL
release_wrongKey(S, f) ==
    LET hostKey == S.fetches[f].host
        n == IF MapHas(S.counters, hostKey) /\ S.counters[hostKey] # 0
             THEN S.counters[hostKey] ELSE 1
    IN  [S EXCEPT !.inFlight = MapDelete(@, hostKey),
                  !.counters = MapSet(@, hostKey, n - 1)]

\* finally, lines 59-60
release(S, f) ==
    LET u == S.fetches[f].url
        hostKey == S.fetches[f].host
        n == IF MapHas(S.counters, hostKey) /\ S.counters[hostKey] # 0
             THEN S.counters[hostKey] ELSE 1
    IN  [S EXCEPT !.inFlight = MapDelete(@, u),
                  !.counters = MapSet(@, hostKey, n - 1)]

\* a finally block that forgets the wait buffer
processQueue_never(S, hostKey) == S

\* the dequeue handing the request straight to executeRequest, past the
\* lookup in the dedup map
processQueue_bypassDedup(S, hostKey) ==
    IF MapHas(S.queue, hostKey) /\ Len(S.queue[hostKey]) > 0
    THEN LET nextRequest == Head(S.queue[hostKey])
             S1 == [S EXCEPT !.queue[hostKey] = Tail(@)]
         IN  executeRequest(S1, nextRequest.call, nextRequest.url,
                            nextRequest.options, hostKey)
    ELSE S

\* the dequeue running the request without its options, so that the default
\* {} is used (fetchWithOptimization(nextRequest.url) at line 76)
processQueue_dropOptions(S, hostKey) ==
    IF MapHas(S.queue, hostKey) /\ Len(S.queue[hostKey]) > 0
    THEN LET nextRequest == Head(S.queue[hostKey])
             S1 == [S EXCEPT !.queue[hostKey] = Tail(@)]
         IN  fetchWithOptimization(S1, nextRequest.call, nextRequest.url, {})
    ELSE S

\* the dequeue taking the newest entry (queue.pop() for queue.shift())
processQueue_lifo(S, hostKey) ==
    IF MapHas(S.queue, hostKey) /\ Len(S.queue[hostKey]) > 0
    THEN LET q == S.queue[hostKey]
             nextRequest == q[Len(q)]
             S1 == [S EXCEPT !.queue[hostKey] = SubSeq(q, 1, Len(q) - 1)]
         IN  fetchWithOptimization(S1, nextRequest.call, nextRequest.url,
                                   nextRequest.options)
    ELSE S

\* finally, lines 64-83: dequeue one request and run it
processQueue(S, hostKey) ==
    IF MapHas(S.queue, hostKey) /\ Len(S.queue[hostKey]) > 0
    THEN LET nextRequest == Head(S.queue[hostKey])
             S1 == [S EXCEPT !.queue[hostKey] = Tail(@)]
         IN  fetchWithOptimization(S1, nextRequest.call, nextRequest.url,
                                   nextRequest.options)
    ELSE S

\* the continuation running the dequeued request with the URL of the request
\* that has just completed (urlString for nextRequest.url at line 76)
completion_outerUrl(S, f, answer) ==
    LET S0 == release(settle(S, f, answer), f)
        hostKey == S.fetches[f].host
    IN  IF MapHas(S0.queue, hostKey) /\ Len(S0.queue[hostKey]) > 0
        THEN LET nextRequest == Head(S0.queue[hostKey])
                 S1 == [S0 EXCEPT !.queue[hostKey] = Tail(@)]
             IN  fetchWithOptimization(S1, nextRequest.call, S.fetches[f].url,
                                       nextRequest.options)
        ELSE S0

\* the continuation of executeRequest after `await requestPromise`
completion(S, f, answer) ==
    processQueue(release(settle(S, f, answer), f), S.fetches[f].host)

----------------------------------------------------------------------------
Init ==
    /\ inFlightRequests = EmptyMap
    /\ hostQueue = EmptyMap
    /\ hostCounters = EmptyMap
    /\ calls = <<>>
    /\ fetches = <<>>

Become(S) ==
    /\ inFlightRequests' = S.inFlight
    /\ hostQueue' = S.queue
    /\ hostCounters' = S.counters
    /\ calls' = S.calls
    /\ fetches' = S.fetches

\* paths on one host are interchangeable names: a call asks for a path that
\* was asked for before, or for the lowest one that was not
PathInUse(u) ==
    u \in BusyUrls =>
        \/ u.path = 1
        \/ \E c \in DOMAIN calls :
              calls[c].url \in BusyUrls /\ calls[c].url.path = u.path - 1

\* application code calls fetchWithOptimization(u, o)
Call(u, o) ==
    /\ Len(calls) < MaxCalls
    /\ PathInUse(u)
    /\ Become(fetchWithOptimization(
                [St EXCEPT !.calls = Append(@, NewCall(u, o))],
                Len(calls) + 1, u, o))

\* the transport answers fetch f and executeRequest resumes after
\* `await requestPromise`
Complete(f, answer) ==
    /\ f \in DOMAIN fetches
    /\ fetches[f].state = "inflight"
    /\ Become(completion(St, f, answer))

Next ==
    \/ \E u \in Urls, o \in Options : Call(u, o)
    \/ \E f \in 1..MaxCalls, answer \in TransportAnswers : Complete(f, answer)

Spec == Init /\ [][Next]_vars

\* The specification for progress.  Its inputs are the requests to the busy
\* host and one answer of each kind the continuation distinguishes, a value
\* and an error; its fairness is the premise that every transport call is
\* answered, after which the continuation that awaits it runs.
LiveAnswers == { Response(200, TRUE), NetworkFailure }

LiveNext ==
    \/ \E u \in BusyUrls, o \in Options : Call(u, o)
    \/ \E f \in 1..MaxCalls, answer \in LiveAnswers : Complete(f, answer)

Fairness ==
    \A f \in 1..MaxCalls :
        WF_vars(\E answer \in LiveAnswers : Complete(f, answer))

LiveSpec == Init /\ [][LiveNext]_vars /\ Fairness

\* The specification of a burst: application code makes up to MaxBurst calls,
\* all to the busy host, enough for the host's buffer to hold three requests
\* behind a full set of transport calls and for one more call to arrive
\* later; the transport answers every call with a success.
BurstAnswers == { Response(200, TRUE) }

BurstCall(u, o) ==
    /\ Len(calls) < MaxBurst
    /\ PathInUse(u)
    /\ Become(fetchWithOptimization(
                [St EXCEPT !.calls = Append(@, NewCall(u, o))],
                Len(calls) + 1, u, o))

BurstNext ==
    \/ \E u \in BusyUrls, o \in Options : BurstCall(u, o)
    \/ \E f \in 1..MaxBurst, answer \in BurstAnswers : Complete(f, answer)

BurstSpec == Init /\ [][BurstNext]_vars

\* The specification of callers with differing options: up to
\* MaxHeaderCalls calls to the busy host, each with options of its own
\* choice; the transport answers every call with a success.
HeaderCall(u, o) ==
    /\ Len(calls) < MaxHeaderCalls
    /\ PathInUse(u)
    /\ Become(fetchWithOptimization(
                [St EXCEPT !.calls = Append(@, NewCall(u, o))],
                Len(calls) + 1, u, o))

HeaderNext ==
    \/ \E u \in BusyUrls, o \in HeaderOptions : HeaderCall(u, o)
    \/ \E f \in 1..MaxHeaderCalls, answer \in BurstAnswers : Complete(f, answer)

HeaderSpec == Init /\ [][HeaderNext]_vars

\* The specification of requests to differing schemes and ports: up to
\* MaxKeyCalls calls for the URLs of KeyUrls and for one URL of another
\* hostname; the transport answers every call with a success.
KeyCall(u, o) ==
    /\ Len(calls) < MaxKeyCalls
    /\ Become(fetchWithOptimization(
                [St EXCEPT !.calls = Append(@, NewCall(u, o))],
                Len(calls) + 1, u, o))

KeyNext ==
    \/ \E u \in KeyUrls \cup {OtherUrl}, o \in Options : KeyCall(u, o)
    \/ \E f \in 1..MaxKeyCalls, answer \in BurstAnswers : Complete(f, answer)

KeySpec == Init /\ [][KeyNext]_vars

----------------------------------------------------------------------------
(* Vocabulary of the properties.                                           *)

\* the transport calls in flight for host h
InFlightFor(h) ==
    { f \in DOMAIN fetches : fetches[f].state = "inflight" /\ fetches[f].host = h }

\* the transport calls in flight for URL u
ExecutingFor(u) ==
    { f \in DOMAIN fetches : fetches[f].state = "inflight" /\ fetches[f].url = u }

\* the wait-buffer entries for URL u, over all hosts
BufferedFor(u) ==
    { e \in { <<h, i>> : h \in DOMAIN hostQueue, i \in 1..MaxCalls } :
        e[2] \in DOMAIN hostQueue[e[1]] /\ hostQueue[e[1]][e[2]].url = u }

Buffer(h) == IF MapHas(hostQueue, h) THEN hostQueue[h] ELSE <<>>

----------------------------------------------------------------------------
\* C1: calls for one URL, each made while an earlier one of them was still
\* unsettled, are all served by one and the same transport call.
C1_ConcurrentCallsShareOneTransportCall ==
    \A c2 \in DOMAIN calls : \A c1 \in calls[c2].peers :
        (calls[c1].fetch # 0 /\ calls[c2].fetch # 0)
            => calls[c1].fetch = calls[c2].fetch

\* C2: no host ever has more than MAX_CONCURRENT_REQUESTS transport calls in
\* flight, and a request waiting in a buffer has no transport call.
C2_ConcurrencyBound ==
    /\ \A h \in Hosts : Cardinality(InFlightFor(h)) <= MAX_CONCURRENT_REQUESTS
    /\ \A c \in DOMAIN calls : calls[c].state = "queued" => calls[c].fetch = 0

\* C2 witness: a host with exactly MAX_CONCURRENT_REQUESTS transport calls
\* in flight while a fourth request for it waits.
C2_Witness ==
    \E h \in Hosts :
        /\ Cardinality(InFlightFor(h)) = MAX_CONCURRENT_REQUESTS
        /\ Len(Buffer(h)) > 0

\* C3: requests of one host leave its wait buffer in the order they entered
\* it, and the transport calls started for them begin in that order.
C3_FifoRelease ==
    \A ci \in DOMAIN calls : \A cj \in DOMAIN calls :
        ( /\ ci < cj
          /\ calls[ci].buffered /\ calls[cj].buffered
          /\ getHostKey(calls[ci].url) = getHostKey(calls[cj].url) )
        => /\ calls[cj].state # "queued" => calls[ci].state # "queued"
           /\ (calls[ci].role = "owner" /\ calls[cj].role = "owner")
                 => calls[ci].fetch < calls[cj].fetch

\* C3 witness: two requests for different URLs were buffered and both have
\* had their transport call started.
C3_Witness ==
    \E ci \in DOMAIN calls : \E cj \in DOMAIN calls :
        /\ ci < cj
        /\ calls[ci].buffered /\ calls[cj].buffered
        /\ calls[ci].url # calls[cj].url
        /\ calls[ci].role = "owner" /\ calls[cj].role = "owner"

\* C4: at most one task, buffered or executing, exists for any URL.
C4_AtMostOneTaskPerUrl ==
    \A u \in Urls :
        Cardinality(BufferedFor(u)) + Cardinality(ExecutingFor(u)) <= 1

\* C5: the callers that share one transport call all receive its one outcome,
\* the same value or the same error, and none before that call has completed.
C5_SharedOutcome ==
    /\ \A c1 \in DOMAIN calls : \A c2 \in DOMAIN calls :
          ( /\ calls[c1].fetch # 0 /\ calls[c1].fetch = calls[c2].fetch
            /\ calls[c1].state = "settled" /\ calls[c2].state = "settled" )
          => calls[c1].result = calls[c2].result
    /\ \A c \in DOMAIN calls :
          (calls[c].fetch # 0 /\ calls[c].state = "settled")
          => /\ fetches[calls[c].fetch].state = "done"
             /\ calls[c].result.kind # "pending"
    /\ \A c \in DOMAIN calls :
          (calls[c].fetch # 0 /\ fetches[calls[c].fetch].state = "inflight")
          => calls[c].result = Pending

\* C5 witness: the caller that started a transport call and a caller that
\* joined it have both been settled with its error.
C5_Witness ==
    \E c1 \in DOMAIN calls : \E c2 \in DOMAIN calls :
        /\ calls[c1].fetch # 0 /\ calls[c1].fetch = calls[c2].fetch
        /\ calls[c1].role = "owner" /\ calls[c2].role = "joined"
        /\ calls[c1].state = "settled" /\ calls[c2].state = "settled"
        /\ calls[c1].result.kind = "rejected"

\* C6 (state part): a dedup entry always names a transport call for that URL
\* that is still in flight.
NoStaleEntry ==
    \A u \in DOMAIN inFlightRequests :
        /\ inFlightRequests[u] \in DOMAIN fetches
        /\ fetches[inFlightRequests[u]].url = u
        /\ fetches[inFlightRequests[u]].state = "inflight"

\* C6 (step part): whenever a call is attached to a transport call, that
\* transport call is in flight: no call is handed a finished one.
NoReplay ==
    \A c \in DOMAIN calls' :
        (calls'[c].fetch # 0 /\ (c \notin DOMAIN calls \/ calls[c].fetch = 0))
        => /\ fetches'[calls'[c].fetch].state = "inflight"
           /\ fetches'[calls'[c].fetch].url = calls'[c].url

\* C6: once the request for a URL has settled, with a value or an error, the
\* dedup map has no entry for it and the next call for the URL is served by a
\* new transport call.
C6_CleanupOnEverySettlement == [](NoStaleEntry) /\ [][NoReplay]_vars

\* C6 witness: a transport call for a URL failed, and a later call for the
\* same URL has been given a second transport call.
C6_Witness ==
    \E f1 \in DOMAIN fetches : \E f2 \in DOMAIN fetches :
        /\ f1 < f2 /\ fetches[f1].url = fetches[f2].url
        /\ fetches[f1].promise.kind = "rejected"
        /\ ~MapHas(inFlightRequests, fetches[f1].url)
        /\ fetches[f2].state = "done"

AllCallsSettled == \A c \in DOMAIN calls : calls[c].state = "settled"

\* C7: if every transport call is answered, every call is eventually settled:
\* from any state, a state in which every call made so far has been settled
\* is reached.
C7_EveryCallSettles == []<>AllCallsSettled

\* C7 witness: a request that waited in a buffer behind a full host has been
\* settled.
C7_Witness ==
    \E c \in DOMAIN calls :
        calls[c].buffered /\ calls[c].state = "settled" /\ calls[c].fetch # 0

\* the transport call failed: no answer, a status outside 200..299, or a body
\* that is not JSON
TransportFailed(a) == a.neterr \/ ~ResponseOk(a) \/ ~a.json

\* the failures executeRequest detects
DetectedFailure(a) == a.neterr \/ ~ResponseOk(a)

\* the dispatcher's maps and the number of transport calls started are the
\* same after fetch f completes with answer a as after it completes with b
SameRelease(f, a, b) ==
    LET Sa == completion(St, f, a)
        Sb == completion(St, f, b)
    IN  /\ Sa.inFlight = Sb.inFlight
        /\ Sa.queue = Sb.queue
        /\ Sa.counters = Sb.counters
        /\ Len(Sa.fetches) = Len(Sb.fetches)
        /\ \A c \in DOMAIN calls :
              calls[c].fetch # f =>
                  /\ Sa.calls[c] = Sb.calls[c]
                  /\ Sa.calls[c].result = calls[c].result

\* every settled caller holds the outcome of a transport call made for its
\* own URL: an error if Failed says that call failed, its response otherwise
OwnOutcome(Failed(_)) ==
    \A c \in DOMAIN calls :
        (calls[c].state = "settled" /\ calls[c].fetch # 0)
        => LET f == calls[c].fetch
           IN  /\ fetches[f].url = calls[c].url
               /\ Failed(fetches[f].answer) => calls[c].result.kind = "rejected"
               /\ ~Failed(fetches[f].answer)
                    => calls[c].result = Resolved(fetches[f].answer)

\* a completion treats the host's slot and buffer alike whatever the answer
ReleaseWhateverTheAnswer ==
    \A f \in DOMAIN fetches :
        fetches[f].state = "inflight"
        => \A a \in TransportAnswers : SameRelease(f, a, Response(200, TRUE))

\* C8: a task whose transport call fails (network error, non-success status
\* or undecodable body) settles its own waiters, and only them, with an
\* error; every other task receives the outcome of its own transport call,
\* and the slot is released to the next buffered task as after a success.
C8_FailureIsolation == OwnOutcome(TransportFailed) /\ ReleaseWhateverTheAnswer

\* C8, for the failures the code detects (network error, non-success status):
\* the isolation and the release of the slot taken alone.
IsolationOfDetectedFailures ==
    OwnOutcome(DetectedFailure) /\ ReleaseWhateverTheAnswer

\* C9: a call for a URL that is not in flight, to a host with fewer than
\* MAX_CONCURRENT_REQUESTS transport calls in flight, starts its transport
\* call in the step that makes the call, whatever the state of other hosts.
ImmediateAdmission ==
    \A c \in (DOMAIN calls') \ (DOMAIN calls) :
        LET u == calls'[c].url
        IN  ( /\ URLParses(u)
              /\ ~MapHas(inFlightRequests, u)
              /\ Cardinality(InFlightFor(getHostKey(u))) < MAX_CONCURRENT_REQUESTS )
            => /\ calls'[c].role = "owner"
               /\ calls'[c].fetch = Len(fetches) + 1
               /\ Len(fetches') = Len(fetches) + 1
               /\ fetches'[Len(fetches')].url = u
               /\ fetches'[Len(fetches')].state = "inflight"

C9_HostIndependence == [][ImmediateAdmission]_vars

\* C9 witness: one host has MAX_CONCURRENT_REQUESTS transport calls in flight
\* and a request waiting, and the call made last, to another host, has its
\* transport call in flight.
C9_Witness ==
    \E h \in Hosts :
        /\ Cardinality(InFlightFor(h)) = MAX_CONCURRENT_REQUESTS
        /\ Len(Buffer(h)) > 0
        /\ Len(calls) > 0
        /\ LET c == Len(calls)
           IN  /\ URLParses(calls[c].url)
               /\ getHostKey(calls[c].url) # h
               /\ calls[c].role = "owner"
               /\ fetches[calls[c].fetch].state = "inflight"
               /\ \A d \in 1..(c - 1) : getHostKey(calls[d].url) = h

\* C10: a call with a URL that does not parse is rejected with the invalid-URL
\* error and changes nothing else: not the dedup map, not a host's buffer or
\* counter, not the transport calls, not another caller's promise.
InvalidUrlChangesNothing ==
    \A c \in (DOMAIN calls') \ (DOMAIN calls) :
        ~URLParses(calls'[c].url)
        => /\ calls'[c].state = "settled"
           /\ calls'[c].result = Rejected(InvalidUrlError)
           /\ calls'[c].fetch = 0
           /\ UNCHANGED <<inFlightRequests, hostQueue, hostCounters, fetches>>
           /\ \A d \in DOMAIN calls : calls'[d] = calls[d]

C10_InvalidUrlIsolated == [][InvalidUrlChangesNothing]_vars

\* C10 witness: a call was rejected with the invalid-URL error while a host
\* had transport calls in flight and a request waiting.
C10_Witness ==
    /\ Len(calls) > 0
    /\ calls[Len(calls)].result = Rejected(InvalidUrlError)
    /\ \E h \in Hosts :
          Cardinality(InFlightFor(h)) = MAX_CONCURRENT_REQUESTS /\ Len(Buffer(h)) > 0

----------------------------------------------------------------------------
\* C11: in every state where a caller, the one that started the transport
\* call or one that joined it, holds the outcome of the request for a URL,
\* the dedup map has no entry naming that settled request.
C11_EntryGoneWhenObserved ==
    \A c \in DOMAIN calls :
        (calls[c].state = "settled" /\ calls[c].fetch # 0)
        => ~( /\ MapHas(inFlightRequests, calls[c].url)
              /\ inFlightRequests[calls[c].url] = calls[c].fetch )

\* C11 witness: a caller that joined a transport call holds its outcome
\* while the dedup map already has an entry for the same URL that names a
\* later transport call.
C11_Witness ==
    \E c \in DOMAIN calls :
        /\ calls[c].state = "settled" /\ calls[c].role = "joined"
        /\ MapHas(inFlightRequests, calls[c].url)
        /\ inFlightRequests[calls[c].url] > calls[c].fetch

----------------------------------------------------------------------------
\* a caller's promise holds an outcome exactly when one outcome was delivered
\* to it, and none is ever delivered twice
OneOutcome ==
    \A c \in DOMAIN calls :
        /\ calls[c].outcomes <= 1
        /\ calls[c].state = "settled" <=> calls[c].outcomes = 1
        /\ calls[c].state = "settled" <=> calls[c].result # Pending

\* a settled caller is left alone by every later step
SettledIsFinal ==
    \A c \in DOMAIN calls :
        calls[c].state = "settled" => calls'[c] = calls[c]

\* C12: every task is settled exactly once, whether it started at once, was
\* buffered and dequeued, or joined a request in flight: its resolve/reject
\* handle is invoked once, and its caller's promise receives one outcome
\* that no later step changes.
C12_SettledExactlyOnce == [](OneOutcome) /\ [][SettledIsFinal]_vars

\* C12 witness: a call that started at once, a call that was buffered and
\* dequeued, and a call that joined a request in flight have all been
\* settled.
C12_Witness ==
    \E c1 \in DOMAIN calls : \E c2 \in DOMAIN calls : \E c3 \in DOMAIN calls :
        /\ calls[c1].state = "settled" /\ calls[c1].role = "owner"
        /\ ~calls[c1].buffered
        /\ calls[c2].state = "settled" /\ calls[c2].buffered
        /\ calls[c3].state = "settled" /\ calls[c3].role = "joined"
        /\ ~calls[c3].buffered

----------------------------------------------------------------------------
\* the transport calls started on behalf of call c
TransportCallsOf(c) == { f \in DOMAIN fetches : fetches[f].owner = c }

\* the error a body that is not JSON is expected to produce
UndecodableBodyError == [msg |-> "Unexpected token", status |-> 0]

\* the error that goes with a failed transport call
ErrorOf(a) ==
    IF a.neterr THEN NetworkError
    ELSE IF ~ResponseOk(a) THEN HttpError(a.status)
    ELSE UndecodableBodyError

\* a settled call whose transport call failed, as Failed tells, had the
\* transport invoked once on its behalf and is rejected with that error
NoRetry(Failed(_)) ==
    \A c \in DOMAIN calls :
        ( /\ calls[c].state = "settled" /\ calls[c].role = "owner"
          /\ Failed(fetches[calls[c].fetch].answer) )
        => /\ TransportCallsOf(c) = {calls[c].fetch}
           /\ calls[c].result = Rejected(ErrorOf(fetches[calls[c].fetch].answer))

\* C13: no error is retried: a call whose transport call fails with a
\* network error, a non-success status or an undecodable body has had the
\* transport invoked exactly once and is rejected with that error.
C13_NoInternalRetry == NoRetry(TransportFailed)

\* C13, for the failures the code detects (network error, non-success
\* status).
NoRetryOfDetectedFailures == NoRetry(DetectedFailure)

----------------------------------------------------------------------------
\* the transport call completed with a status outside the success range
BadStatus(a) == ~a.neterr /\ ~ResponseOk(a)

\* C14: when the transport call completes with a status outside the success
\* range, every call it serves fails with the HTTP error that carries that
\* status code, and none resolves with a value.
C14_StatusErrorCarriesCode ==
    \A c \in DOMAIN calls :
        ( /\ calls[c].state = "settled" /\ calls[c].fetch # 0
          /\ BadStatus(fetches[calls[c].fetch].answer) )
        => /\ calls[c].result.kind = "rejected"
           /\ calls[c].result.error.msg = "HTTP Error"
           /\ calls[c].result.error.status = fetches[calls[c].fetch].answer.status

\* C14 witness: a request that waited in a buffer was answered with status
\* 500, and its caller has been settled.
C14_Witness ==
    \E c \in DOMAIN calls :
        /\ calls[c].state = "settled" /\ calls[c].buffered
        /\ calls[c].fetch # 0
        /\ fetches[calls[c].fetch].answer = Response(500, TRUE)

----------------------------------------------------------------------------
\* a request waiting in a buffer has had no transport call made for it
BufferedNotStarted ==
    \A h \in DOMAIN hostQueue : \A i \in DOMAIN hostQueue[h] :
        TransportCallsOf(hostQueue[h][i].call) = {}

\* a new call for a URL that is not in flight starts its transport call in
\* the step that makes it when its host has a free slot; otherwise it becomes
\* the last entry of the host's buffer and no transport call starts
AdmitOrAppend ==
    \A c \in (DOMAIN calls') \ (DOMAIN calls) :
        LET u == calls'[c].url
            h == getHostKey(u)
        IN  (URLParses(u) /\ ~MapHas(inFlightRequests, u))
            => IF Cardinality(InFlightFor(h)) < MAX_CONCURRENT_REQUESTS
               THEN /\ fetches' = Append(fetches, fetches'[Len(fetches')])
                    /\ fetches'[Len(fetches')].url = u
                    /\ fetches'[Len(fetches')].owner = c
                    /\ fetches'[Len(fetches')].state = "inflight"
                    /\ hostQueue' = hostQueue
               ELSE /\ fetches' = fetches
                    /\ MapHas(hostQueue', h)
                    /\ hostQueue'[h] =
                         Append(Buffer(h), [call |-> c, url |-> u,
                                            options |-> calls'[c].options])
                    /\ \A g \in DOMAIN hostQueue : g # h => hostQueue'[g] = hostQueue[g]
                    /\ calls'[c].result = Pending

\* C15: a new, non-deduplicated request starts its transport call at once if
\* fewer than MAX_CONCURRENT_REQUESTS are executing for its host; otherwise
\* it is appended to the tail of the host's wait buffer, and no transport
\* call is made for it while it waits there.
C15_AdmitOrAppend == [](BufferedNotStarted) /\ [][AdmitOrAppend]_vars

\* C15 witness: the first call started its transport call at once and it is
\* still in flight, and the call made last is the tail of a buffer that
\* already held an earlier request.
C15_Witness ==
    \E h \in Hosts :
        /\ Len(Buffer(h)) >= 2
        /\ Buffer(h)[Len(Buffer(h))].call = Len(calls)
        /\ calls[1].role = "owner" /\ ~calls[1].buffered
        /\ getHostKey(calls[1].url) = h
        /\ fetches[calls[1].fetch].state = "inflight"

----------------------------------------------------------------------------
\* C16: slot release is work-conserving: in every state between operations,
\* a host's wait buffer is empty or exactly MAX_CONCURRENT_REQUESTS transport
\* calls are in flight for that host.
C16_WorkConserving ==
    \A h \in Hosts :
        Len(Buffer(h)) = 0
        \/ Cardinality(InFlightFor(h)) = MAX_CONCURRENT_REQUESTS

----------------------------------------------------------------------------
\* C17: admission per host is strict FIFO over all requests that were not
\* deduplicated: of two such requests for one host, the one that arrived
\* later never has its transport call started before the earlier one's; in
\* particular a new request never overtakes one waiting in the buffer.
C17_StrictFifoAdmission ==
    \A c1 \in DOMAIN calls : \A c2 \in DOMAIN calls :
        ( /\ c1 < c2
          /\ URLParses(calls[c1].url) /\ URLParses(calls[c2].url)
          /\ getHostKey(calls[c1].url) = getHostKey(calls[c2].url)
          /\ calls[c1].role # "joined"
          /\ calls[c2].role = "owner" )
        => /\ calls[c1].role = "owner"
           /\ calls[c1].fetch < calls[c2].fetch

----------------------------------------------------------------------------
\* a call for a URL that is in flight is attached to that transport call and
\* changes nothing else: no transport call starts, and the counters, the
\* buffers, the dedup map and the other callers stay as they were
JoinChangesNothing ==
    \A c \in (DOMAIN calls') \ (DOMAIN calls) :
        MapHas(inFlightRequests, calls'[c].url)
        => /\ UNCHANGED <<inFlightRequests, hostQueue, hostCounters, fetches>>
           /\ calls'[c].role = "joined"
           /\ calls'[c].fetch = inFlightRequests[calls'[c].url]
           /\ calls'[c].result = Pending
           /\ \A d \in DOMAIN calls : calls'[d] = calls[d]

\* a call that joined a transport call never has one made on its behalf, and
\* what it receives is the outcome of the transport call it joined
JoinedReceivesOutcome ==
    \A c \in DOMAIN calls :
        calls[c].role = "joined"
        => /\ TransportCallsOf(c) = {}
           /\ fetches[calls[c].fetch].url = calls[c].url
           /\ calls[c].state = "settled"
                => calls[c].result = requestPromise(fetches[calls[c].fetch].answer)

\* C18: a call whose URL is in flight makes no transport call of its own and
\* takes no admission capacity: the host's active count and wait buffer are
\* unchanged, and the call only receives the in-flight request's outcome.
C18_JoinTakesNoCapacity == [](JoinedReceivesOutcome) /\ [][JoinChangesNothing]_vars

\* C18 witness: the call made last joined a transport call of a host that
\* has MAX_CONCURRENT_REQUESTS transport calls in flight and a request
\* waiting.
C18_Witness ==
    /\ Len(calls) > 0
    /\ calls[Len(calls)].role = "joined"
    /\ ~calls[Len(calls)].buffered
    /\ calls[Len(calls)].state = "waiting"
    /\ LET h == getHostKey(calls[Len(calls)].url)
       IN  /\ Cardinality(InFlightFor(h)) = MAX_CONCURRENT_REQUESTS
           /\ Len(Buffer(h)) > 0

----------------------------------------------------------------------------
\* the calls made so far are for pairwise distinct URLs
DistinctUrls ==
    \A c1 \in DOMAIN calls : \A c2 \in DOMAIN calls :
        c1 # c2 => calls[c1].url # calls[c2].url

\* every transport call started so far has been answered
Quiescent == \A f \in DOMAIN fetches : fetches[f].state = "done"

\* C19: for N pairwise distinct URLs on one host, N greater than
\* MAX_CONCURRENT_REQUESTS, the transport is invoked once per URL, never
\* twice for one, and once the transport has answered every call it was
\* given, it has been invoked N times and all N calls are resolved, each
\* with the response to its own transport call.
C19_DistinctUrlsEachFetchedOnce ==
    DistinctUrls
    => /\ \A f1 \in DOMAIN fetches : \A f2 \in DOMAIN fetches :
             f1 # f2 => fetches[f1].url # fetches[f2].url
       /\ \A f \in DOMAIN fetches : calls[fetches[f].owner].url = fetches[f].url
       /\ Quiescent
            => /\ Len(fetches) = Len(calls)
               /\ \A c \in DOMAIN calls :
                     /\ TransportCallsOf(c) = {calls[c].fetch}
                     /\ calls[c].result = Resolved(fetches[calls[c].fetch].answer)

\* C19 witness: five calls for five distinct URLs of one host, the last two
\* buffered behind the first three, have all been resolved.
C19_Witness ==
    /\ DistinctUrls /\ Quiescent
    /\ Len(calls) = NumPaths /\ Len(fetches) = NumPaths
    /\ calls[MAX_CONCURRENT_REQUESTS + 1].buffered
    /\ calls[MAX_CONCURRENT_REQUESTS + 2].buffered
    /\ fetches[1].state = "done"
    /\ \A c \in DOMAIN calls : calls[c].result.kind = "resolved"

----------------------------------------------------------------------------
\* C20: every caller receives the outcome of a transport call made for its
\* own URL: the promise of a settled caller, whether its request started at
\* once or was buffered and dequeued, holds what the transport answered for
\* that caller's URL and never the answer for another URL.
C20_OutcomeOfOwnUrl ==
    \A c \in DOMAIN calls :
        (calls[c].state = "settled" /\ URLParses(calls[c].url))
        => /\ calls[c].source \in DOMAIN fetches
           /\ calls[c].source = calls[c].fetch
           /\ fetches[calls[c].source].url = calls[c].url
           /\ fetches[calls[c].source].state = "done"
           /\ calls[c].result = requestPromise(fetches[calls[c].source].answer)

\* C20 witness: of two callers for different URLs of one host, the second
\* buffered and dequeued, the first holds a response and the second an HTTP
\* error.
C20_Witness ==
    \E c1 \in DOMAIN calls : \E c2 \in DOMAIN calls :
        /\ c1 < c2 /\ calls[c1].url # calls[c2].url
        /\ getHostKey(calls[c1].url) = getHostKey(calls[c2].url)
        /\ calls[c2].buffered
        /\ calls[c1].state = "settled" /\ calls[c2].state = "settled"
        /\ calls[c1].result.kind = "resolved"
        /\ calls[c2].result = Rejected(HttpError(500))

----------------------------------------------------------------------------
\* C21: the transport is invoked with exactly the URL the caller passed and
\* with the caller's options, every header with its value, also for a
\* request that waited in a buffer before it started.
C21_TransportGetsCallersUrlAndOptions ==
    \A f \in DOMAIN fetches :
        /\ fetches[f].url = calls[fetches[f].owner].url
        /\ fetches[f].options = calls[fetches[f].owner].options

\* C21 witness: a request made with a header waited in a buffer behind
\* requests made with other options, and its transport call has started.
C21_Witness ==
    \E f \in DOMAIN fetches :
        /\ calls[fetches[f].owner].buffered
        /\ fetches[f].options = {Header("X-Custom-Header", "OtherValue")}
        /\ \E g \in DOMAIN fetches :
              /\ g < f /\ fetches[g].host = fetches[f].host
              /\ fetches[g].options # fetches[f].options

----------------------------------------------------------------------------
\* C22: deduplication keys on the URL alone: calls for one URL, each made
\* while an earlier one was unsettled, are one logical request whatever
\* their options: one transport call serves them, made for the call that
\* created the request and with its options, and they receive one outcome.
C22_DedupIgnoresOptions ==
    \A c2 \in DOMAIN calls : \A c1 \in calls[c2].peers :
        ( /\ calls[c1].options # calls[c2].options
          /\ calls[c1].fetch # 0 /\ calls[c2].fetch # 0 )
        => /\ calls[c1].fetch = calls[c2].fetch
           /\ TransportCallsOf(c2) = {}
           /\ fetches[calls[c2].fetch].options
                = calls[fetches[calls[c2].fetch].owner].options
           /\ (calls[c1].state = "settled" /\ calls[c2].state = "settled")
                => calls[c1].result = calls[c2].result

\* C22, for a URL whose transport call is in flight: a call with other
\* options joins that transport call, and no second one starts.
JoinWhateverTheOptions ==
    \A c \in (DOMAIN calls') \ (DOMAIN calls) :
        MapHas(inFlightRequests, calls'[c].url)
        => /\ fetches' = fetches
           /\ calls'[c].fetch = inFlightRequests[calls'[c].url]
           /\ calls'[c].role = "joined"

DedupOfInFlightIgnoresOptions == [][JoinWhateverTheOptions]_vars

----------------------------------------------------------------------------
\* the port a URL addresses: the one written in it, or its scheme's default
EffectivePort(u) == IF u.port = "" THEN DefaultPort(u.scheme) ELSE u.port

\* the two URLs agree on scheme, host and port
SameAuthority(u, v) ==
    /\ u.scheme = v.scheme
    /\ u.hostname = v.hostname
    /\ EffectivePort(u) = EffectivePort(v)

\* the two URLs differ in host, or have one scheme and differ in port
OtherHostOrPort(u, v) ==
    \/ u.hostname # v.hostname
    \/ u.scheme = v.scheme /\ EffectivePort(u) # EffectivePort(v)

\* C23: the host key is a function of the URL's scheme, host and port: the
\* transport calls of two URLs are counted under the same key exactly when
\* the URLs agree on scheme, host and port.
C23_KeyIsSchemeHostPort ==
    \A f1 \in DOMAIN fetches : \A f2 \in DOMAIN fetches :
        SameAuthority(fetches[f1].url, fetches[f2].url)
            <=> fetches[f1].host = fetches[f2].host

\* URLs that agree on scheme, host and port are counted under one key, and
\* URLs of different hosts, or of one scheme and different ports, under
\* different keys; the transport calls in flight for one scheme, host and
\* port never exceed the limit
KeyByHostAndPort ==
    /\ \A f1 \in DOMAIN fetches : \A f2 \in DOMAIN fetches :
          /\ SameAuthority(fetches[f1].url, fetches[f2].url)
                => fetches[f1].host = fetches[f2].host
          /\ OtherHostOrPort(fetches[f1].url, fetches[f2].url)
                => fetches[f1].host # fetches[f2].host
    /\ \A f1 \in DOMAIN fetches :
          Cardinality({ f2 \in DOMAIN fetches :
                          /\ fetches[f2].state = "inflight"
                          /\ SameAuthority(fetches[f1].url, fetches[f2].url) })
            <= MAX_CONCURRENT_REQUESTS

\* a new call for a URL that is not in flight starts its transport call at
\* once unless MAX_CONCURRENT_REQUESTS transport calls are in flight for
\* URLs of its host that do not differ from it in port under one scheme
IndependentOfOtherHostOrPort ==
    \A c \in (DOMAIN calls') \ (DOMAIN calls) :
        LET u == calls'[c].url
        IN  ( /\ URLParses(u)
              /\ ~MapHas(inFlightRequests, u)
              /\ Cardinality({ f \in DOMAIN fetches :
                                 /\ fetches[f].state = "inflight"
                                 /\ ~OtherHostOrPort(fetches[f].url, u) })
                    < MAX_CONCURRENT_REQUESTS )
            => /\ calls'[c].role = "owner"
               /\ Len(fetches') = Len(fetches) + 1
               /\ fetches'[Len(fetches')].url = u

\* C23, amended: the host key is a function of the URL's host and port and
\* leaves the scheme out: URLs that agree on scheme, host and port get one
\* key and share one limit; URLs that differ in host, or that have one scheme
\* and differ in port, get different keys and independent limits.
C23_KeyIsHostAndPort == [](KeyByHostAndPort) /\ [][IndependentOfOtherHostOrPort]_vars

\* C23 witness: a request waits in a buffer while a transport call is in
\* flight for the same scheme, host and port written differently, and a
\* later call for another port of the same scheme and host has its
\* transport call in flight.
C23_Witness ==
    \E c \in DOMAIN calls : \E f \in DOMAIN fetches : \E d \in DOMAIN calls :
        /\ calls[c].state = "queued"
        /\ fetches[f].state = "inflight"
        /\ SameAuthority(calls[c].url, fetches[f].url)
        /\ calls[c].url # fetches[f].url
        /\ d > c
        /\ calls[d].url.scheme = calls[c].url.scheme
        /\ calls[d].url.hostname = calls[c].url.hostname
        /\ OtherHostOrPort(calls[d].url, calls[c].url)
        /\ calls[d].role = "owner" /\ ~calls[d].buffered
        /\ fetches[calls[d].fetch].state = "inflight"

----------------------------------------------------------------------------
\* C24: at every instant at most one transport call is in flight for any
\* URL: no fetch for a URL starts while an earlier one for it has not
\* completed, also when a buffered request for the URL is dequeued while
\* another request for it is executing.
C24_OneTransportCallPerUrl ==
    \A f1 \in DOMAIN fetches : \A f2 \in DOMAIN fetches :
        ( /\ fetches[f1].url = fetches[f2].url
          /\ fetches[f1].state = "inflight" /\ fetches[f2].state = "inflight" )
        => f1 = f2

\* C24 witness: a buffered request was dequeued while a transport call for
\* its URL, started for another buffered request, was in flight, and it
\* waits for that call.
C24_Witness ==
    \E c \in DOMAIN calls :
        /\ calls[c].buffered /\ calls[c].role = "joined"
        /\ calls[c].state = "waiting"
        /\ fetches[calls[c].fetch].state = "inflight"
        /\ calls[fetches[calls[c].fetch].owner].buffered

----------------------------------------------------------------------------
\* the active count the dispatcher keeps for host h
Counter(h) == IF MapHas(hostCounters, h) THEN hostCounters[h] ELSE 0

\* the counter of every host is the number of its transport calls in flight
CounterIsInFlight ==
    \A h \in Hosts \cup DOMAIN hostCounters :
        /\ Counter(h) = Cardinality(InFlightFor(h))
        /\ Counter(h) >= 0

\* in every step the counter of a host goes up by the transport calls
\* started for the host and down by those that completed
CounterFollowsTasks ==
    \A h \in Hosts :
        LET started == { f \in (DOMAIN fetches') \ (DOMAIN fetches) :
                           fetches'[f].host = h }
            completed == { f \in DOMAIN fetches :
                             /\ fetches[f].host = h
                             /\ fetches[f].state = "inflight"
                             /\ fetches'[f].state = "done" }
            after == IF MapHas(hostCounters', h) THEN hostCounters'[h] ELSE 0
        IN  after = Counter(h) + Cardinality(started) - Cardinality(completed)

\* C25: the per-host counter is exact: it equals the number of transport
\* calls in flight for the host, goes up by one when a task starts and down
\* by one when it completes, with a value or an error, and is never negative.
C25_CounterExact == [](CounterIsInFlight) /\ [][CounterFollowsTasks]_vars

\* C25 witness: transport calls of a host have completed with a value and
\* with an error, a buffered request was started in their place, and the
\* host's counter stands at MAX_CONCURRENT_REQUESTS.
C25_Witness ==
    \E f1 \in DOMAIN fetches : \E f2 \in DOMAIN fetches : \E f3 \in DOMAIN fetches :
        /\ fetches[f1].host = fetches[f2].host /\ fetches[f2].host = fetches[f3].host
        /\ fetches[f1].promise.kind = "resolved"
        /\ fetches[f2].promise.kind = "rejected"
        /\ fetches[f3].state = "inflight" /\ calls[fetches[f3].owner].buffered
        /\ Counter(fetches[f3].host) = MAX_CONCURRENT_REQUESTS

\* C26: a wait buffer is never stranded: whenever the buffer of a host holds
\* a request, at least one transport call of that host is in flight.
C26_BufferNeverStranded ==
    \A h \in DOMAIN hostQueue :
        Len(hostQueue[h]) > 0 => InFlightFor(h) # {}

\* C26 witness: a request waits in the buffer of a host that has a single
\* transport call left in flight.
C26_Witness ==
    \E h \in DOMAIN hostQueue :
        Len(hostQueue[h]) > 0 /\ Cardinality(InFlightFor(h)) = 1

\* C27: once every call made has been settled the dispatcher is idle: the
\* dedup map is empty, every host's counter is 0 and every buffer is empty.
C27_IdleWhenAllSettled ==
    AllCallsSettled
    => /\ inFlightRequests = EmptyMap
       /\ \A h \in DOMAIN hostCounters : hostCounters[h] = 0
       /\ \A h \in DOMAIN hostQueue : hostQueue[h] = <<>>
       /\ Quiescent

\* C27 witness: every call has been settled after a run in which a transport
\* call failed, a call joined a request in flight and a request waited in a
\* buffer.
C27_Witness ==
    /\ AllCallsSettled /\ Len(calls) = MaxCalls
    /\ \E c \in DOMAIN calls : calls[c].result.kind = "rejected" /\ calls[c].fetch # 0
    /\ \E c \in DOMAIN calls : calls[c].role = "joined"
    /\ \E c \in DOMAIN calls : calls[c].buffered

\* the URLs a step acts for: that of a call it makes, that of a transport
\* call it completes, and that of the request it takes from the buffer
ActedUrls ==
    LET completed == { f \in DOMAIN fetches :
                         fetches[f].state = "inflight" /\ fetches'[f].state = "done" }
    IN  { calls'[c].url : c \in (DOMAIN calls') \ (DOMAIN calls) }
        \cup { fetches[f].url : f \in completed }
        \cup { Head(Buffer(fetches[f].host)).url :
                 f \in { g \in completed : Len(Buffer(fetches[g].host)) > 0 } }

\* a step leaves alone the counter and the buffer of every host it does not
\* act for, and the dedup entry of every URL it does not act for
OtherHostsAndUrlsUnchanged ==
    LET hosts == { getHostKey(u) : u \in { v \in ActedUrls : URLParses(v) } }
    IN  /\ \A h \in (DOMAIN hostCounters) \cup (DOMAIN hostCounters') :
              h \notin hosts
              => /\ h \in (DOMAIN hostCounters) \cap (DOMAIN hostCounters')
                 /\ hostCounters'[h] = hostCounters[h]
        /\ \A h \in (DOMAIN hostQueue) \cup (DOMAIN hostQueue') :
              h \notin hosts
              => /\ h \in (DOMAIN hostQueue) \cap (DOMAIN hostQueue')
                 /\ hostQueue'[h] = hostQueue[h]
        /\ \A u \in (DOMAIN inFlightRequests) \cup (DOMAIN inFlightRequests') :
              u \notin ActedUrls
              => /\ u \in (DOMAIN inFlightRequests) \cap (DOMAIN inFlightRequests')
                 /\ inFlightRequests'[u] = inFlightRequests[u]

\* C28: every operation on behalf of a request to one host (arrival, start,
\* buffering, completion, dequeue) leaves the active count and the wait
\* buffer of every other host unchanged, and the dedup entries of all URLs
\* but the request's own.
C28_OtherHostsUntouched == [][OtherHostsAndUrlsUnchanged]_vars

\* C28 witness: while a transport call of one host is in flight, a
\* completion on another host has taken a request from that host's buffer
\* and started it.
C28_Witness ==
    \E f \in DOMAIN fetches : \E g \in DOMAIN fetches :
        /\ f < g /\ fetches[f].host # fetches[g].host
        /\ fetches[f].state = "inflight" /\ fetches[g].state = "inflight"
        /\ calls[fetches[g].owner].buffered
        /\ MapHas(inFlightRequests, fetches[f].url)

====
